---- MODULE Spec2Model ----
(***************************************************************************)
(* Model of harmony.py: scales and chords as interval sequences, the       *)
(* chord-fitting search (Scale.add_chord / Scale.has_chord), the interval  *)
(* arithmetic (Scale.interval_between) and chordal_relationships.          *)
(*                                                                         *)
(* Python sequences are 0-based; a Python index i is element i + 1 of the  *)
(* TLA+ sequence.  A Python dict is a function whose DOMAIN is its set of  *)
(* keys; a Python set is a set.                                            *)
(***************************************************************************)
EXTENDS Integers, Sequences, FiniteSets, TLC

VARIABLES scales, last, pc

vars == <<scales, last, pc>>

----------------------------------------------------------------------------
(* Bounds of the explored input space *)

MaxNotes == 3
MaxInterval == 2
MaxChordLen == 2
MaxChordInterval == 3
MaxIndex == 7

Seqs(S, n) == UNION {[1..k -> S] : k \in 1..n}

ScaleIntervals == Seqs(1..MaxInterval, MaxNotes)

ChordNames == {"X", "Y"}

ChordCandidates == [name : ChordNames, intervals : Seqs(1..MaxChordInterval, MaxChordLen)]

----------------------------------------------------------------------------
(* Constructors and catalog *)

EmptyDict == [k \in {} |-> {}]

Scale(name, intervals) == [name |-> name, intervals |-> intervals, chords |-> EmptyDict]

Chord(name, intervals) == [name |-> name, intervals |-> intervals]

major_scale == Scale("Major", <<2, 2, 1, 2, 2, 2, 1>>)
minor_scale == Scale("Minor", <<2, 1, 2, 2, 1, 2, 2>>)
melodic_minor == Scale("Melodic Minor", <<2, 1, 2, 2, 1, 3, 1>>)
harmonic_minor == Scale("Harmonic Minor", <<2, 1, 2, 2, 2, 2, 1>>)

major_chord == Chord("Major", <<4, 3>>)
minor_chord == Chord("Minor", <<3, 4>>)
dim_chord == Chord("Diminished", <<3, 3>>)
aug_chord == Chord("Augmented", <<4, 4>>)
sus2_chord == Chord("Sus2", <<2, 5>>)
sus4_chord == Chord("Sus4", <<5, 2>>)

catalog_scales == <<major_scale, minor_scale, melodic_minor, harmonic_minor>>
catalog_chords == <<major_chord, minor_chord, dim_chord, aug_chord, sus2_chord, sus4_chord>>

----------------------------------------------------------------------------
(* Scale.num_notes *)

num_notes(intervals) == Len(intervals)

(* Variant of walk_while that accepts an overshoot as a match *)
RECURSIVE walk_while_overshoot(_, _, _, _)
walk_while_overshoot(intervals, i, accumulated_interval, current_interval) ==
    LET acc == accumulated_interval + intervals[i + 1]
        nxt == (i + 1) % Len(intervals)
    IN  IF acc >= current_interval THEN [i |-> nxt, illegal |-> FALSE]
        ELSE walk_while_overshoot(intervals, nxt, acc, current_interval)

(* Scale.add_chord: the `while True` loop for one chord interval.  Returns *)
(* the scale index after the loop and whether the running sum overshot.    *)
RECURSIVE walk_while(_, _, _, _)
walk_while(intervals, i, accumulated_interval, current_interval) ==
    LET acc == accumulated_interval + intervals[i + 1]
        nxt == (i + 1) % num_notes(intervals)
    IN  IF acc = current_interval THEN [i |-> nxt, illegal |-> FALSE]
        ELSE IF acc > current_interval THEN [i |-> nxt, illegal |-> TRUE]
        ELSE walk_while(intervals, nxt, acc, current_interval)

(* Variant of walk_chord that restarts every chord interval at the base note *)
RECURSIVE walk_chord_restart(_, _, _, _, _)
walk_chord_restart(intervals, chord_intervals, m, i, illegal_chord) ==
    IF m > Len(chord_intervals) THEN illegal_chord
    ELSE LET w == walk_while(intervals, i, 0, chord_intervals[m])
         IN  walk_chord_restart(intervals, chord_intervals, m + 1, i, illegal_chord \/ w.illegal)

(* Scale.add_chord: the `for current_interval in chord.intervals` loop     *)
(* from position m on.  The loop is not left when illegal_chord is set: the *)
(* remaining chord intervals are still walked and the flag stays set.       *)
RECURSIVE walk_chord(_, _, _, _, _)
walk_chord(intervals, chord_intervals, m, i, illegal_chord) ==
    IF m > Len(chord_intervals) THEN illegal_chord
    ELSE LET w == walk_while(intervals, i, 0, chord_intervals[m])
         IN  walk_chord(intervals, chord_intervals, m + 1, w.i, illegal_chord \/ w.illegal)

(* Scale.add_chord: the set of base notes added to self.chords[chord.name] *)
add_chord_roots(intervals, chord_intervals) ==
    {base_note \in 0..(num_notes(intervals) - 1) :
        ~walk_chord(intervals, chord_intervals, 1, base_note, FALSE)}

DictPut(d, k, v) == [x \in (DOMAIN d) \cup {k} |-> IF x = k THEN v ELSE d[x]]

(* Scale.add_chord: self.chords after the call, and the returned boolean *)
add_chord_chords(scale, chord) ==
    DictPut(scale.chords, chord.name, add_chord_roots(scale.intervals, chord.intervals))

add_chord_ret(scale, chord) ==
    add_chord_roots(scale.intervals, chord.intervals) # {}

(* Variant of has_chord_ret that answers true for every memoized name *)
has_chord_ret_present(scale, chord) ==
    IF chord.name \in DOMAIN scale.chords
    THEN TRUE
    ELSE add_chord_ret(scale, chord)

(* Scale.has_chord: the returned boolean, and self.chords after the call *)
has_chord_ret(scale, chord) ==
    IF chord.name \in DOMAIN scale.chords /\ Cardinality(scale.chords[chord.name]) > 0
    THEN TRUE
    ELSE IF chord.name \in DOMAIN scale.chords /\ Cardinality(scale.chords[chord.name]) = 0
    THEN FALSE
    ELSE add_chord_ret(scale, chord)

has_chord_chords(scale, chord) ==
    IF chord.name \in DOMAIN scale.chords
    THEN scale.chords
    ELSE add_chord_chords(scale, chord)

(* Variant of interval_sum that stops at the last note instead of wrapping *)
RECURSIVE interval_sum_nowrap(_, _, _, _)
interval_sum_nowrap(intervals, i, k, n) ==
    IF k >= n THEN 0
    ELSE intervals[(IF i + k >= Len(intervals) THEN Len(intervals) - 1 ELSE i + k) + 1]
         + interval_sum_nowrap(intervals, i, k + 1, n)

(* Scale.interval_between: the loop `for k in range(0, j - i)` from k on *)
RECURSIVE interval_sum(_, _, _, _)
interval_sum(intervals, i, k, n) ==
    IF k >= n THEN 0
    ELSE intervals[((i + k) % num_notes(intervals)) + 1] + interval_sum(intervals, i, k + 1, n)

(* Variant of interval_between without the swap of i and j *)
interval_between_noswap(intervals, i, j) == interval_sum(intervals, i, 0, j - i)

(* Scale.interval_between *)
interval_between(intervals, i, j) ==
    LET lo == IF i > j THEN j ELSE i
        hi == IF i > j THEN i ELSE j
    IN  interval_sum(intervals, lo, 0, hi - lo)

----------------------------------------------------------------------------
(* The record of the last call *)

Ready == [at |-> "ready", n |-> 0]

NoChord == Chord("", <<>>)

NoCall == [op |-> "none", s1 |-> 0, s2 |-> 0, chord |-> NoChord, i |-> 0, j |-> 0,
           ret |-> 0, before |-> EmptyDict, records |-> <<>>, summary |-> <<>>]

----------------------------------------------------------------------------
(* Actions of the chord-fitting engine *)

add_chord(s, chord) ==
    /\ pc = Ready
    /\ scales' = [scales EXCEPT ![s].chords = add_chord_chords(scales[s], chord)]
    /\ last' = [NoCall EXCEPT !.op = "add_chord", !.s1 = s, !.chord = chord,
                              !.ret = add_chord_ret(scales[s], chord),
                              !.before = scales[s].chords]
    /\ UNCHANGED pc

has_chord(s, chord) ==
    /\ pc = Ready
    /\ scales' = [scales EXCEPT ![s].chords = has_chord_chords(scales[s], chord)]
    /\ last' = [NoCall EXCEPT !.op = "has_chord", !.s1 = s, !.chord = chord,
                              !.ret = has_chord_ret(scales[s], chord),
                              !.before = scales[s].chords]
    /\ UNCHANGED pc

call_interval_between(s, i, j) ==
    /\ pc = Ready
    /\ last' = [NoCall EXCEPT !.op = "interval_between", !.s1 = s, !.i = i, !.j = j,
                              !.ret = interval_between(scales[s].intervals, i, j)]
    /\ UNCHANGED <<scales, pc>>

----------------------------------------------------------------------------
(* The chord-fitting engine on one caller-built scale *)

Init ==
    /\ \E intervals \in ScaleIntervals : scales = <<Scale("S1", intervals)>>
    /\ last = NoCall
    /\ pc = Ready

Next ==
    \/ \E s \in DOMAIN scales, chord \in ChordCandidates : add_chord(s, chord)
    \/ \E s \in DOMAIN scales, chord \in ChordCandidates : has_chord(s, chord)

Spec == Init /\ [][Next]_vars

----------------------------------------------------------------------------
(* One engine call on a scale a caller has prepared *)

(* The memos add_chord calls with the given chords can leave on a scale:    *)
(* add_chord overwrites the entry of the chord's name, so every memoized   *)
(* name holds the set add_chord computed for the last chord of that name.  *)
Memos(intervals, chords) ==
    UNION {[D -> {add_chord_roots(intervals, c.intervals) : c \in chords}] :
              D \in SUBSET {c.name : c \in chords}}

Memoized(scale, memo) == [scale EXCEPT !.chords = memo]

(* The chords of the call and of the preparation share one name *)
CallChords == {c \in ChordCandidates : c.name = "X"}

InitCall ==
    /\ \E intervals \in ScaleIntervals :
         \E memo \in Memos(intervals, CallChords) :
            scales = <<Memoized(Scale("S1", intervals), memo)>>
    /\ last = NoCall
    /\ pc = Ready

NextCall ==
    /\ last = NoCall
    /\ \/ \E s \in DOMAIN scales, chord \in CallChords : add_chord(s, chord)
       \/ \E s \in DOMAIN scales, chord \in CallChords : has_chord(s, chord)

SpecCall == InitCall /\ [][NextCall]_vars

----------------------------------------------------------------------------
(* Scale.interval_between on one caller-built scale *)

InitInterval ==
    /\ \E intervals \in ScaleIntervals \cup {major_scale.intervals} :
            scales = <<Scale("S1", intervals)>>
    /\ last = NoCall
    /\ pc = Ready

NextInterval ==
    \E s \in DOMAIN scales, i \in 0..MaxIndex, j \in 0..MaxIndex : call_interval_between(s, i, j)

SpecInterval == InitInterval /\ [][NextInterval]_vars

----------------------------------------------------------------------------
(* chordal_relationships *)

(* Iteration order of a set of small non-negative integers: ascending *)
RECURSIVE set_iter(_)
set_iter(S) ==
    IF S = {} THEN <<>>
    ELSE LET x == CHOOSE y \in S : \A z \in S : y <= z
         IN  <<x>> \o set_iter(S \ {x})

(* The replacement fields of the format string of the relationship       *)
(* record, in order of appearance: {0} {1} {2} {3} {4} {5} {6}             *)
record_fields == <<0, 1, 2, 3, 4, 5, 6>>

(* The replacement fields of the summary line: {0} {1} *)
summary_fields == <<0, 1>>

(* str.format: the values substituted for the replacement fields, in order *)
format(fields, args) == [n \in 1..Len(fields) |-> args[fields[n] + 1]]

(* Variant of relationship_record that measures dist_2 on scale_2 *)
relationship_record_scale_2(scale_1, scale_2, chord, root_1, root_2) ==
    LET dist_1 == interval_between(scale_1.intervals, 0, root_1)
        dist_2 == interval_between(scale_2.intervals, 0, root_2)
        key_distance == dist_2 - dist_1
    IN  format(record_fields,
               <<scale_1.name, scale_2.name, chord.name, root_1 + 1, root_2 + 1,
                 (key_distance * 7) % 12,
                 (12 - ((key_distance * 7) % 12)) % 12,
                 key_distance % 12>>)

(* The body of the inner loop: the line printed for (root_1, root_2) *)
relationship_record(scale_1, scale_2, chord, root_1, root_2) ==
    LET dist_1 == interval_between(scale_1.intervals, 0, root_1)
        dist_2 == interval_between(scale_1.intervals, 0, root_2)
        key_distance == dist_2 - dist_1
    IN  format(record_fields,
               <<scale_1.name, scale_2.name, chord.name, root_1 + 1, root_2 + 1,
                 (key_distance * 7) % 12,
                 (12 - ((key_distance * 7) % 12)) % 12,
                 key_distance % 12>>)

(* Variant of fifths_relation that takes the difference of the degrees *)
fifths_relation_degrees(scale_1, root_1, root_2) == ((root_2 - root_1) * 7) % 12

(* The value added to fifths_relations for (root_1, root_2) *)
fifths_relation(scale_1, root_1, root_2) ==
    LET dist_1 == interval_between(scale_1.intervals, 0, root_1)
        dist_2 == interval_between(scale_1.intervals, 0, root_2)
        key_distance == dist_2 - dist_1
    IN  (key_distance * 7) % 12

(* The lines printed by the two nested loops, in order *)
RECURSIVE inner_loop(_, _, _, _, _)
inner_loop(scale_1, scale_2, chord, root_1, roots_2) ==
    IF roots_2 = <<>> THEN <<>>
    ELSE <<relationship_record(scale_1, scale_2, chord, root_1, Head(roots_2))>>
         \o inner_loop(scale_1, scale_2, chord, root_1, Tail(roots_2))

RECURSIVE outer_loop(_, _, _, _, _)
outer_loop(scale_1, scale_2, chord, roots_1, roots_2) ==
    IF roots_1 = <<>> THEN <<>>
    ELSE inner_loop(scale_1, scale_2, chord, Head(roots_1), roots_2)
         \o outer_loop(scale_1, scale_2, chord, Tail(roots_1), roots_2)

chordal_relationships(s1, s2, chord) ==
    LET ret_1 == has_chord_ret(scales[s1], chord)
        after_1 == [scales EXCEPT ![s1].chords = has_chord_chords(scales[s1], chord)]
        \* `and` evaluates scale_2.has_chord only when scale_1.has_chord is true
        ret_2 == ret_1 /\ has_chord_ret(after_1[s2], chord)
        after_2 == IF ret_1
                   THEN [after_1 EXCEPT ![s2].chords = has_chord_chords(after_1[s2], chord)]
                   ELSE after_1
        roots_1 == IF ret_2 THEN after_2[s1].chords[chord.name] ELSE {}
        roots_2 == IF ret_2 THEN after_2[s2].chords[chord.name] ELSE {}
        fifths_relations == {fifths_relation(after_2[s1], root_1, root_2) :
                                root_1 \in roots_1, root_2 \in roots_2}
    IN  /\ pc = Ready
        /\ scales' = after_2
        /\ last' = [NoCall EXCEPT !.op = "chordal_relationships", !.s1 = s1, !.s2 = s2,
                                  !.chord = chord,
                                  !.records = outer_loop(after_2[s1], after_2[s2], chord,
                                                         set_iter(roots_1), set_iter(roots_2)),
                                  !.summary = <<format(summary_fields,
                                                       <<chord.name, fifths_relations>>)>>]
        /\ UNCHANGED pc

(* Two scales a caller has prepared with add_chord calls *)
InitRel ==
    /\ \E i1 \in ScaleIntervals, i2 \in ScaleIntervals :
         \E m1 \in Memos(i1, CallChords), m2 \in Memos(i2, CallChords) :
            scales = <<Memoized(Scale("S1", i1), m1), Memoized(Scale("S2", i2), m2)>>
    /\ last = NoCall
    /\ pc = Ready

(* One call of chordal_relationships on the prepared scales *)
NextRel ==
    /\ last = NoCall
    /\ \E s1 \in DOMAIN scales, s2 \in DOMAIN scales, chord \in CallChords :
            chordal_relationships(s1, s2, chord)

SpecRel == InitRel /\ [][NextRel]_vars

----------------------------------------------------------------------------
(* Module load: the catalog scales, the loop `for scale in scales: for     *)
(* chord in chords: scale.add_chord(chord)`, then calls on the catalog.    *)

NumLoadSteps == Len(catalog_scales) * Len(catalog_chords)

InitLoad ==
    /\ scales = catalog_scales
    /\ last = NoCall
    /\ pc = [at |-> "load", n |-> 0]

load_step ==
    /\ pc.at = "load"
    /\ LET s == (pc.n \div Len(catalog_chords)) + 1
           chord == catalog_chords[(pc.n % Len(catalog_chords)) + 1]
       IN  /\ scales' = [scales EXCEPT ![s].chords = add_chord_chords(scales[s], chord)]
           /\ last' = [NoCall EXCEPT !.op = "add_chord", !.s1 = s, !.chord = chord,
                                     !.ret = add_chord_ret(scales[s], chord),
                                     !.before = scales[s].chords]
    /\ pc' = IF pc.n + 1 = NumLoadSteps THEN Ready ELSE [at |-> "load", n |-> pc.n + 1]

CatalogChords == {catalog_chords[n] : n \in DOMAIN catalog_chords}

NextLoad ==
    \/ load_step
    \/ \E s1 \in DOMAIN scales, s2 \in DOMAIN scales, chord \in CatalogChords :
            chordal_relationships(s1, s2, chord)
    \/ \E s \in DOMAIN scales, chord \in CatalogChords : has_chord(s, chord)
    \/ \E s \in DOMAIN scales, chord \in CatalogChords : add_chord(s, chord)

SpecLoad == InitLoad /\ [][NextLoad]_vars

----------------------------------------------------------------------------
(* Vocabulary of the properties *)

RECURSIVE SeqSum(_)
SeqSum(seq) == IF seq = <<>> THEN 0 ELSE Head(seq) + SeqSum(Tail(seq))

(* c_1 + ... + c_m *)
CumulativeOffset(chord_intervals, m) == SeqSum(SubSeq(chord_intervals, 1, m))

(* The sum of n consecutive scale intervals, cyclically, starting at degree r *)
CyclicPartialSum(intervals, r, n) ==
    SeqSum([k \in 1..n |-> intervals[((r + k - 1) % Len(intervals)) + 1]])

(* The roots at which every cumulative chord offset is a cyclic partial sum *)
FittingRoots(intervals, chord_intervals) ==
    {r \in 0..(Len(intervals) - 1) :
        \A m \in 1..Len(chord_intervals) :
            \E n \in 0..SeqSum(chord_intervals) :
                CumulativeOffset(chord_intervals, m) = CyclicPartialSum(intervals, r, n)}

LastScale == scales[last.s1]

\* C1: after add_chord(S, C), whatever S.chords held before, S.chords[C.name] is
\* exactly the set of roots r in 0..N-1 at which every cumulative chord offset
\* c_1+...+c_m is a cyclic partial sum of S.intervals starting at r, and the call
\* returned true iff that set is non-empty (so a second run stores the same set).
C1_AddChordExact ==
    last.op = "add_chord" =>
        /\ last.chord.name \in DOMAIN LastScale.chords
        /\ LastScale.chords[last.chord.name]
              = FittingRoots(LastScale.intervals, last.chord.intervals)
        /\ last.ret = (FittingRoots(LastScale.intervals, last.chord.intervals) # {})

\* C1 witness: add_chord overwrote a different memoized set under the same name
\* with a set that holds some roots of the scale and not others, for a chord of
\* two intervals.
C1_Witness ==
    /\ last.op = "add_chord"
    /\ Len(last.chord.intervals) = 2
    /\ last.chord.name \in DOMAIN last.before
    /\ last.before[last.chord.name] # LastScale.chords[last.chord.name]
    /\ LastScale.chords[last.chord.name] # {}
    /\ LastScale.chords[last.chord.name] # 0..(Len(LastScale.intervals) - 1)
    /\ last.ret = TRUE

\* C2: has_chord(S, C) with C.name already memoized returns true iff the stored
\* set is non-empty and leaves S.chords unchanged; with C.name not memoized it
\* returns what add_chord returns and memoizes C.name.  Either way the returned
\* value is the one a second has_chord(S, C) reads back from the memo.
C2_HasChordMemo ==
    last.op = "has_chord" =>
        /\ last.chord.name \in DOMAIN LastScale.chords
        /\ last.ret = (LastScale.chords[last.chord.name] # {})
        /\ IF last.chord.name \in DOMAIN last.before
           THEN /\ last.ret = (last.before[last.chord.name] # {})
                /\ LastScale.chords = last.before
           ELSE /\ last.ret = (FittingRoots(LastScale.intervals, last.chord.intervals) # {})
                /\ DOMAIN LastScale.chords = DOMAIN last.before \cup {last.chord.name}
                /\ LastScale.chords[last.chord.name]
                      = FittingRoots(LastScale.intervals, last.chord.intervals)
                /\ \A n \in DOMAIN last.before : LastScale.chords[n] = last.before[n]

\* C2 witness: has_chord answered false from a memoized empty set, for a chord
\* that fits the scale, without touching the memo.
C2_Witness ==
    /\ last.op = "has_chord"
    /\ last.chord.name \in DOMAIN last.before
    /\ last.before[last.chord.name] = {}
    /\ last.ret = FALSE
    /\ FittingRoots(LastScale.intervals, last.chord.intervals) # {}
    /\ LastScale.chords = last.before

\* C3: every has_chord(S, C), after any sequence of has_chord and add_chord calls
\* with any chords (distinct chords of one name included), returns true iff C's
\* interval pattern fits at at least one root of S.
C3_MemoTransparent ==
    last.op = "has_chord" =>
        last.ret = (FittingRoots(LastScale.intervals, last.chord.intervals) # {})

\* C4: interval_between(S, i, j) = interval_between(S, j, i) for all non-negative
\* i and j, below N or not, in either order, and interval_between(S, i, i) = 0.
C4_Symmetric ==
    last.op = "interval_between" =>
        /\ last.ret = interval_between(LastScale.intervals, last.j, last.i)
        /\ last.ret = CyclicPartialSum(LastScale.intervals,
                                       IF last.i < last.j THEN last.i ELSE last.j,
                                       IF last.i < last.j THEN last.j - last.i
                                                          ELSE last.i - last.j)
        /\ (last.i = last.j => last.ret = 0)

\* C4 witness: a call with i > j, i beyond the last degree, and a positive result
C4_Witness ==
    /\ last.op = "interval_between"
    /\ last.i > last.j
    /\ last.i >= Len(LastScale.intervals)
    /\ last.ret > 0

\* C5: interval_between(S, i, i + N) is the sum of S.intervals for every
\* non-negative i, i >= N included; interval_between(major_scale, 0, 7) = 12.
C5_FullCycle ==
    /\ (last.op = "interval_between" /\ last.j = last.i + Len(LastScale.intervals))
          => last.ret = SeqSum(LastScale.intervals)
    /\ (/\ last.op = "interval_between"
        /\ LastScale.intervals = major_scale.intervals
        /\ last.i = 0
        /\ last.j = 7) => last.ret = 12

\* C5 witness: a full cycle that starts beyond the last degree of a scale whose
\* intervals are not all equal
C5_Witness ==
    /\ last.op = "interval_between"
    /\ last.j = last.i + Len(LastScale.intervals)
    /\ last.i > Len(LastScale.intervals)
    /\ \E a, b \in DOMAIN LastScale.intervals : LastScale.intervals[a] # LastScale.intervals[b]
    /\ last.ret = SeqSum(LastScale.intervals)

\* C6: on the Major scale [2,2,1,2,2,2,1] the set add_chord stores at module
\* load is exactly {0, 3, 4} for the Major chord [4,3] and exactly {6} for the
\* Diminished chord [3,3].
C6_MajorScaleRoots ==
    /\ scales[1].intervals = <<2, 2, 1, 2, 2, 2, 1>>
    /\ ("Major" \in DOMAIN scales[1].chords => scales[1].chords["Major"] = {0, 3, 4})
    /\ ("Diminished" \in DOMAIN scales[1].chords => scales[1].chords["Diminished"] = {6})
    /\ (pc.at = "ready" => {"Major", "Diminished"} \subseteq DOMAIN scales[1].chords)

\* C6 witness: the load loop has finished and both sets are stored
C6_Witness ==
    /\ pc.at = "ready"
    /\ last.op = "add_chord"
    /\ last.s1 = Len(catalog_scales)
    /\ scales[1].chords["Major"] = {0, 3, 4}
    /\ scales[1].chords["Diminished"] = {6}

IsRelCall == last.op = "chordal_relationships"

Scale1 == scales[last.s1]
Scale2 == scales[last.s2]

\* C7: chordal_relationships(scale_1, scale_2, chord), when the chord fits at no
\* root of at least one of the two scales, emits no per-pair record and exactly
\* one summary line whose reachable fifths-set is empty.
C7_NoFitNoRecords ==
    (/\ IsRelCall
     /\ \/ FittingRoots(Scale1.intervals, last.chord.intervals) = {}
        \/ FittingRoots(Scale2.intervals, last.chord.intervals) = {})
    => /\ last.records = <<>>
       /\ Len(last.summary) = 1
       /\ last.summary[1][2] = {}

\* Both scales have the chord: has_chord answered true for both, so both hold a
\* non-empty set under the chord's name
BothHaveChord ==
    /\ last.chord.name \in DOMAIN Scale1.chords
    /\ last.chord.name \in DOMAIN Scale2.chords
    /\ Scale1.chords[last.chord.name] # {}
    /\ Scale2.chords[last.chord.name] # {}

\* Semitones from degree 0 up to degree r, on the given scale
Offset(intervals, r) == CyclicPartialSum(intervals, 0, r)

C9_SemitonesInRecord ==
    IsRelCall =>
        \A n \in DOMAIN last.records :
            LET rec == last.records[n]
                key_distance == Offset(Scale1.intervals, rec[5] - 1)
                                - Offset(Scale1.intervals, rec[4] - 1)
            IN  \E f \in 8..Len(rec) : rec[f] = key_distance % 12

IsMajorMajorMajor ==
    /\ IsRelCall
    /\ Scale1.name = "Major"
    /\ Scale2.name = "Major"
    /\ last.chord = major_chord

\* C10 as stated: for chordal_relationships(major_scale, major_scale,
\* major_chord) the summary set includes 0 and ((b - a) * 7) mod 12 for every two
\* roots a, b in {0, 3, 4}.
C10_DegreeDifferences ==
    IsMajorMajorMajor =>
        /\ 0 \in last.summary[1][2]
        /\ \A a \in {0, 3, 4}, b \in {0, 3, 4} : ((b - a) * 7) % 12 \in last.summary[1][2]

\* C10 amended: for chordal_relationships(major_scale, major_scale, major_chord),
\* whose fitting roots are {0, 3, 4} in both scales, the summary set includes 0
\* and, for every two roots a, b, the difference of their semitone offsets from
\* degree 0 (0, 5 and 7) scaled by 7 modulo 12; it is exactly {0, 1, 2, 10, 11}.
C10_SemitoneDifferences ==
    IsMajorMajorMajor =>
        /\ Scale1.chords["Major"] = {0, 3, 4}
        /\ 0 \in last.summary[1][2]
        /\ \A x \in {0, 5, 7}, y \in {0, 5, 7} : ((y - x) * 7) % 12 \in last.summary[1][2]
        /\ last.summary[1][2] = {0, 1, 2, 10, 11}

\* C10 witness: the call was made and printed its nine records
C10_Witness ==
    /\ IsMajorMajorMajor
    /\ Len(last.records) = 9
    /\ Len(last.summary) = 1

====
